---- MODULE Spec2Model ----
(***************************************************************************)
(* Model of the CUDA backend optimiser (backends/cuda/src/optimiser.cc):   *)
(* the architecture table, the workload sizer, the two-pass kernel         *)
(* profiler, the occupancy search and the device selector.                 *)
(*                                                                         *)
(* Numbers of type size_t are written as integers; a negative integer n    *)
(* stands for the wrapped value 2^64 + n (its two's-complement residue).   *)
(* Every quantity of the model stays far below 2^31, so the only wrap that *)
(* can occur is the subtraction of the two shared-memory samples.          *)
(***************************************************************************)
EXTENDS Integers, Sequences, FiniteSets, TLC

VARIABLES
    autoChooseDevice,   \* preferences.autoChooseDevice
    deviceProps,        \* what cudaGetDeviceProperties reports, one record per visible device
    model,              \* the NNmodel topology
    pc,                 \* position in createBackend and its callees
    error,              \* the failure that left createBackend, "none" while running
    d,                  \* deviceID handed to optimizeBlockSize
    groupSizes,         \* optimizeBlockSize: groupSizes[KernelMax]
    ctx,                \* per device: the state of the CUcontext created for it
    ctxCurrent,         \* whether cuContext is the calling thread's current context
    r,                  \* optimizeBlockSize: repetition index
    passLog,            \* probe block sizes logged so far for this device (LOGD line 150)
    moduleNames,        \* number of modules generateAll returned
    m,                  \* index of the module being processed
    status,             \* what system() returned for the last nvcc command
    module,             \* whether a CUmodule is loaded
    krnlAttr,           \* krnlAttr[2][KernelMax]
    kernelsToOptimise,  \* std::map kernel -> (small model, occupancy)
    blockSize,          \* the KernelBlockSize optimizeBlockSize writes to
    archProps,          \* outputs of getDeviceArchitectureProperties
    searched,           \* kernels the loop over kernelsToOptimise has finished
    candidateLog,       \* per kernel: candidate block sizes logged (LOGD line 237)
    limitLog,           \* per kernel and candidate: the limits logged (LOGD lines 241-287)
    devices,            \* chooseOptimalDevice: vector of Device tuples
    result              \* what createBackend builds the Backend from

vars == <<autoChooseDevice, deviceProps, model, pc, error, d, groupSizes, ctx,
          ctxCurrent, r, passLog, moduleNames, m, status, module, krnlAttr,
          kernelsToOptimise, blockSize, archProps, searched, candidateLog,
          limitLog, devices, result>>

-----------------------------------------------------------------------------
(* Bounds of the model *)

\* most visible devices
MaxDevices == 2

-----------------------------------------------------------------------------
(* Backend::Kernel enumeration *)

KernelNeuronUpdate == 0
KernelPresynapticUpdate == 1
KernelPostsynapticUpdate == 2
KernelSynapseDynamicsUpdate == 3
KernelInitialize == 4
KernelInitializeSparse == 5
KernelPreNeuronReset == 6
KernelPreSynapseReset == 7
KernelMax == 8

Kernels == 0 .. (KernelMax - 1)

warpSize == 32

repBlockSizes == <<warpSize, warpSize * 2>>

\* a slot holding <<value>>, or nothing
None == <<>>
\* a kernel attribute slot holds <<attributes>>, or nothing
NotFound == <<>>
Uninit == <<>>

-----------------------------------------------------------------------------
(* Utils *)

ceilDivide(numerator, denominator) == (numerator + denominator - 1) \div denominator

padSize(size, blkSize) == ceilDivide(size, blkSize) * blkSize

\* std::min on size_t
Min(a, b) == IF a < b THEN a ELSE b

\* size_t division a / b with b # 0; a wrapped divisor exceeds every dividend
SizeDiv(a, b) == IF b < 0 THEN 0 ELSE a \div b

\* the elements Val(x) for the x of s with Test(x), in order
FilterMap(s, Test(_), Val(_)) ==
    LET kept == SelectSeq(s, Test) IN [i \in 1 .. Len(kept) |-> Val(kept[i])]

-----------------------------------------------------------------------------
(* getDeviceArchitectureProperties *)

\* the table with the warning given from major version 7 on
getDeviceArchitecturePropertiesWarnFrom7(props) ==
    IF props.major = 1 THEN
        [smemAllocGran |-> 512, warpAllocGran |-> 2,
         regAllocGran |-> IF props.minor < 2 THEN 256 ELSE 512,
         maxBlocksPerSM |-> 8, warned |-> FALSE]
    ELSE IF props.major = 2 THEN
        [smemAllocGran |-> 128, warpAllocGran |-> 2, regAllocGran |-> 64,
         maxBlocksPerSM |-> 8, warned |-> FALSE]
    ELSE IF props.major = 3 THEN
        [smemAllocGran |-> 256, warpAllocGran |-> 4, regAllocGran |-> 256,
         maxBlocksPerSM |-> 16, warned |-> FALSE]
    ELSE IF props.major = 5 THEN
        [smemAllocGran |-> 256, warpAllocGran |-> 4, regAllocGran |-> 256,
         maxBlocksPerSM |-> 32, warned |-> FALSE]
    ELSE IF props.major = 6 THEN
        [smemAllocGran |-> 256, warpAllocGran |-> IF props.minor = 0 THEN 2 ELSE 4,
         regAllocGran |-> 256, maxBlocksPerSM |-> 32, warned |-> FALSE]
    ELSE
        [smemAllocGran |-> 256, warpAllocGran |-> 4, regAllocGran |-> 256,
         maxBlocksPerSM |-> 32, warned |-> props.major >= 7]

getDeviceArchitectureProperties(props) ==
    IF props.major = 1 THEN
        [smemAllocGran |-> 512, warpAllocGran |-> 2,
         regAllocGran |-> IF props.minor < 2 THEN 256 ELSE 512,
         maxBlocksPerSM |-> 8, warned |-> FALSE]
    ELSE IF props.major = 2 THEN
        [smemAllocGran |-> 128, warpAllocGran |-> 2, regAllocGran |-> 64,
         maxBlocksPerSM |-> 8, warned |-> FALSE]
    ELSE IF props.major = 3 THEN
        [smemAllocGran |-> 256, warpAllocGran |-> 4, regAllocGran |-> 256,
         maxBlocksPerSM |-> 16, warned |-> FALSE]
    ELSE IF props.major = 5 THEN
        [smemAllocGran |-> 256, warpAllocGran |-> 4, regAllocGran |-> 256,
         maxBlocksPerSM |-> 32, warned |-> FALSE]
    ELSE IF props.major = 6 THEN
        [smemAllocGran |-> 256, warpAllocGran |-> IF props.minor = 0 THEN 2 ELSE 4,
         regAllocGran |-> 256, maxBlocksPerSM |-> 32, warned |-> FALSE]
    ELSE
        [smemAllocGran |-> 256, warpAllocGran |-> 4, regAllocGran |-> 256,
         maxBlocksPerSM |-> 32, warned |-> props.major > 7]

-----------------------------------------------------------------------------
(* calcGroupSizes *)

IsInitNeuronGroup(n) == n.simRNGRequired \/ n.initCodeRequired

NumNeurons(n) == n.numNeurons

HasLearnPostCode(s) == s.learnPostCode

PresynapticUpdateThreads(s) == s.numPresynapticUpdateThreads

PostsynapticUpdateThreads(s) == s.numPostsynapticUpdateThreads

SynapseDynamicsThreads(s) == s.numSynapseDynamicsThreads

IsDeviceInitSynapseGroup(s) == s.individualWeights /\ s.wuVarInitRequired

IsSparseInit(s) == IsDeviceInitSynapseGroup(s) /\ s.sparse

IsDenseInit(s) == IsDeviceInitSynapseGroup(s) /\ ~s.sparse

NumSrcNeurons(s) == s.numSrcNeurons

\* half the width of unsigned int
UIntHalfBits == 16

\* an unsigned int as <<high half, low half>>
UIntHalf == 2 ^ UIntHalfBits

UIntAdd(x, y) ==
    <<(x[1] + y[1] + ((x[2] + y[2]) \div UIntHalf)) % UIntHalf, (x[2] + y[2]) % UIntHalf>>

RECURSIVE UIntMulFrom(_, _)
\* x * b in unsigned int arithmetic, by doubling
UIntMulFrom(x, b) ==
    IF b = 0 THEN <<0, 0>>
    ELSE LET rest == UIntMulFrom(UIntAdd(x, x), b \div 2)
         IN  IF b % 2 = 1 THEN UIntAdd(rest, x) ELSE rest

\* the unsigned int product a * b, which wraps at 2^32
UIntMul(a, b) ==
    LET p == UIntMulFrom(<<a \div UIntHalf, a % UIntHalf>>, b)
    IN  (p[1] * UIntHalf) + p[2]

NumSrcTimesTrgNeurons(s) == UIntMul(s.numSrcNeurons, s.numTrgNeurons)

AnyGroup(g) == TRUE

PreSynapseResetRequired(s) == s.preSynapseResetRequired

\* model.getNumPreSynapseResetRequiredGroups()
getNumPreSynapseResetRequiredGroups(mdl) ==
    Len(FilterMap(mdl.synapseGroups, PreSynapseResetRequired, AnyGroup))

\* calcGroupSizes with the number of all synapse groups for the synapse reset kernel
calcGroupSizesResetAll(mdl) ==
    [k \in Kernels |->
        CASE k = KernelNeuronUpdate ->
                FilterMap(mdl.neuronGroups, AnyGroup, NumNeurons)
          [] k = KernelPresynapticUpdate ->
                FilterMap(mdl.synapseGroups, AnyGroup, PresynapticUpdateThreads)
          [] k = KernelPostsynapticUpdate ->
                FilterMap(mdl.synapseGroups, HasLearnPostCode, PostsynapticUpdateThreads)
          [] k = KernelSynapseDynamicsUpdate ->
                FilterMap(mdl.synapseGroups, HasLearnPostCode, SynapseDynamicsThreads)
          [] k = KernelInitialize ->
                FilterMap(mdl.neuronGroups, IsInitNeuronGroup, NumNeurons)
                    \o FilterMap(mdl.synapseGroups, IsDenseInit, NumSrcTimesTrgNeurons)
          [] k = KernelInitializeSparse ->
                FilterMap(mdl.synapseGroups, IsSparseInit, NumSrcNeurons)
          [] k = KernelPreNeuronReset -> <<Len(mdl.neuronGroups)>>
          [] k = KernelPreSynapseReset -> <<Len(mdl.synapseGroups)>>]

calcGroupSizes(mdl) ==
    [k \in Kernels |->
        CASE k = KernelNeuronUpdate ->
                FilterMap(mdl.neuronGroups, AnyGroup, NumNeurons)
          [] k = KernelPresynapticUpdate ->
                FilterMap(mdl.synapseGroups, AnyGroup, PresynapticUpdateThreads)
          [] k = KernelPostsynapticUpdate ->
                FilterMap(mdl.synapseGroups, HasLearnPostCode, PostsynapticUpdateThreads)
          [] k = KernelSynapseDynamicsUpdate ->
                FilterMap(mdl.synapseGroups, HasLearnPostCode, SynapseDynamicsThreads)
          [] k = KernelInitialize ->
                FilterMap(mdl.neuronGroups, IsInitNeuronGroup, NumNeurons)
                    \o FilterMap(mdl.synapseGroups, IsDenseInit, NumSrcTimesTrgNeurons)
          [] k = KernelInitializeSparse ->
                FilterMap(mdl.synapseGroups, IsSparseInit, NumSrcNeurons)
          [] k = KernelPreNeuronReset -> <<Len(mdl.neuronGroups)>>
          [] k = KernelPreSynapseReset -> <<getNumPreSynapseResetRequiredGroups(mdl)>>]

-----------------------------------------------------------------------------
(* optimizeBlockSize: the search over candidate block sizes *)

\* coefficients of requiredSharedMemBytes = (A * blockThreads) + B; with
\* sample1 < sample0 the size_t difference wraps, and since every blockThreads
\* is a multiple of 32 the products below have the residues written here
reqSharedMemBytesA(attr0, attr1) ==
    (attr1.sharedSizeBytes - attr0.sharedSizeBytes) \div (repBlockSizes[2] - repBlockSizes[1])

reqSharedMemBytesB(attr0, attr1) ==
    attr0.sharedSizeBytes - (reqSharedMemBytesA(attr0, attr1) * repBlockSizes[1])

\* estimated shared memory of a block of blockThreads threads, padded
reqSharedMemBytes(arch, attr0, attr1, blockThreads) ==
    padSize((reqSharedMemBytesA(attr0, attr1) * blockThreads) + reqSharedMemBytesB(attr0, attr1),
            arch.smemAllocGran)

RECURSIVE reqBlocksFrom(_, _)
reqBlocksFrom(sizes, blockThreads) ==
    IF sizes = <<>> THEN 0
    ELSE ceilDivide(Head(sizes), blockThreads) + reqBlocksFrom(Tail(sizes), blockThreads)

\* number of blocks the groups used by a kernel require
reqBlocks(sizes, blockThreads) == reqBlocksFrom(sizes, blockThreads)

\* SM block limit due to maxThreadsPerMultiProcessor
smBlockLimitThreads(props, blockWarps) ==
    props.maxThreadsPerMultiProcessor \div (blockWarps * warpSize)

\* SM block limit corrected for maxBlocksPerSM
smBlockLimitBlocks(props, arch, blockWarps) ==
    Min(smBlockLimitThreads(props, blockWarps), arch.maxBlocksPerSM)

\* the register correction made on every architecture
smBlockLimitRegsEveryArch(props, arch, attr0, blockWarps) ==
    LET limit == smBlockLimitBlocks(props, arch, blockWarps)
        paddedNumBlockWarps == padSize(blockWarps, arch.warpAllocGran)
        paddedNumRegPerBlock ==
            padSize(paddedNumBlockWarps * attr0.numRegs * warpSize, arch.regAllocGran)
    IN  Min(limit, props.regsPerBlock \div paddedNumRegPerBlock)

\* SM block limit after the thread, maxBlocksPerSM and register corrections
smBlockLimitRegs(props, arch, attr0, blockWarps) ==
    LET limit == smBlockLimitBlocks(props, arch, blockWarps)
    IN  IF props.major = 1
        THEN LET paddedNumBlockWarps == padSize(blockWarps, arch.warpAllocGran)
                 paddedNumRegPerBlock ==
                     padSize(paddedNumBlockWarps * attr0.numRegs * warpSize, arch.regAllocGran)
             IN  Min(limit, props.regsPerBlock \div paddedNumRegPerBlock)
        ELSE limit

\* the SM block limit left without the shared memory correction
smBlockLimitNoSharedMem(props, arch, attr0, attr1, blockWarps) ==
    smBlockLimitRegs(props, arch, attr0, blockWarps)

\* SM block limit after the shared memory correction
smBlockLimit(props, arch, attr0, attr1, blockWarps) ==
    LET smem == reqSharedMemBytes(arch, attr0, attr1, blockWarps * warpSize)
        limit == smBlockLimitRegs(props, arch, attr0, blockWarps)
    IN  IF smem # 0
        THEN Min(limit, SizeDiv(props.sharedMemPerMultiprocessor, smem))
        ELSE limit

\* what the loop logs for one candidate: the padded shared memory estimate
\* and the SM block limit after each correction
CandidateLimits(props, arch, attr0, attr1, blockWarps) ==
    [blockWarps |-> blockWarps,
     reqSharedMemBytes |-> reqSharedMemBytes(arch, attr0, attr1, blockWarps * warpSize),
     dueToThreads |-> smBlockLimitThreads(props, blockWarps),
     forMaxBlocks |-> smBlockLimitBlocks(props, arch, blockWarps),
     forRegisters |-> smBlockLimitRegs(props, arch, attr0, blockWarps),
     smBlockLimit |-> smBlockLimit(props, arch, attr0, attr1, blockWarps)]

newOccupancy(props, arch, attr0, attr1, blockWarps) ==
    blockWarps * smBlockLimit(props, arch, attr0, attr1, blockWarps) * props.multiProcessorCount

\* the test of the small model situation
IsSmallModel(props, arch, sizes, attr0, attr1, blockWarps) ==
    reqBlocks(sizes, blockWarps * warpSize)
        <= smBlockLimit(props, arch, attr0, attr1, blockWarps) * props.multiProcessorCount

\* whether a candidate replaces the best occupancy found so far
ImprovesOccupancy(new, best) == new > best

\* whether the loop over candidates goes on to blockWarps
CandidateInRange(props, blockWarps) == blockWarps < props.maxThreadsPerBlock \div warpSize

RECURSIVE SearchFrom(_, _, _, _, _, _, _)
\* the loop over candidates from blockWarps on; st holds blockSize[k], k.second, the log
SearchFrom(props, arch, sizes, attr0, attr1, blockWarps, st) ==
    IF ~CandidateInRange(props, blockWarps) THEN st
    ELSE LET blockThreads == blockWarps * warpSize
             occ == newOccupancy(props, arch, attr0, attr1, blockWarps)
             logged == Append(st.log, blockThreads)
             limits == Append(st.limits, CandidateLimits(props, arch, attr0, attr1, blockWarps))
         IN  IF IsSmallModel(props, arch, sizes, attr0, attr1, blockWarps)
             THEN [blockSize |-> blockThreads, small |-> TRUE, occupancy |-> occ,
                   log |-> logged, limits |-> limits]
             ELSE IF ImprovesOccupancy(occ, st.occupancy)
             THEN SearchFrom(props, arch, sizes, attr0, attr1, blockWarps + 1,
                             [blockSize |-> blockThreads, small |-> st.small,
                              occupancy |-> occ, log |-> logged, limits |-> limits])
             ELSE SearchFrom(props, arch, sizes, attr0, attr1, blockWarps + 1,
                             [st EXCEPT !.log = logged, !.limits = limits])

RECURSIVE SearchFromNoBreak(_, _, _, _, _, _, _)
\* the loop over candidates without the break of the small model situation
SearchFromNoBreak(props, arch, sizes, attr0, attr1, blockWarps, st) ==
    IF ~CandidateInRange(props, blockWarps) THEN st
    ELSE LET blockThreads == blockWarps * warpSize
             occ == newOccupancy(props, arch, attr0, attr1, blockWarps)
             logged == Append(st.log, blockThreads)
             limits == Append(st.limits, CandidateLimits(props, arch, attr0, attr1, blockWarps))
         IN  IF IsSmallModel(props, arch, sizes, attr0, attr1, blockWarps)
             THEN SearchFromNoBreak(props, arch, sizes, attr0, attr1, blockWarps + 1,
                                    [blockSize |-> blockThreads, small |-> TRUE,
                                     occupancy |-> occ, log |-> logged, limits |-> limits])
             ELSE IF ImprovesOccupancy(occ, st.occupancy)
             THEN SearchFromNoBreak(props, arch, sizes, attr0, attr1, blockWarps + 1,
                                    [blockSize |-> blockThreads, small |-> st.small,
                                     occupancy |-> occ, log |-> logged, limits |-> limits])
             ELSE SearchFromNoBreak(props, arch, sizes, attr0, attr1, blockWarps + 1,
                                    [st EXCEPT !.log = logged, !.limits = limits])

SearchKernelNoBreak(props, arch, sizes, attr0, attr1) ==
    SearchFromNoBreak(props, arch, sizes, attr0, attr1, 1,
                      [blockSize |-> 0, small |-> FALSE, occupancy |-> 0, log |-> <<>>, limits |-> <<>>])

\* the body of the loop over kernelsToOptimise for one kernel
SearchKernel(props, arch, sizes, attr0, attr1) ==
    SearchFrom(props, arch, sizes, attr0, attr1, 1,
               [blockSize |-> 0, small |-> FALSE, occupancy |-> 0, log |-> <<>>, limits |-> <<>>])

-----------------------------------------------------------------------------
(* Inputs of the model: visible devices, model topologies, kernel attributes *)

Device(major, minor, mpCount, threadsPerBlock, threadsPerMP, regs, smem, globalMem) ==
    [major |-> major, minor |-> minor, multiProcessorCount |-> mpCount,
     maxThreadsPerBlock |-> threadsPerBlock, maxThreadsPerMultiProcessor |-> threadsPerMP,
     regsPerBlock |-> regs, sharedMemPerMultiprocessor |-> smem,
     totalGlobalMem |-> globalMem]

\* the devices a machine may show
DeviceSet ==
    { Device(6, 1, 2, 1024, 2048, 65536, 98304, 8192),
      Device(7, 0, 2, 1024, 2048, 65536, 98304, 8192),
      Device(6, 1, 4, 1024, 2048, 65536, 98304, 16384),
      Device(1, 3, 1, 512, 1024, 16384, 16384, 0) }

RECURSIVE SeqsUpTo(_, _)
\* the sequences over S of length at most n
SeqsUpTo(S, n) ==
    IF n = 0 THEN {<<>>}
    ELSE LET shorter == SeqsUpTo(S, n - 1)
         IN  shorter \cup {Append(q, x) : q \in shorter, x \in S}

NeuronGroup(n, rng, init) ==
    [numNeurons |-> n, simRNGRequired |-> rng, initCodeRequired |-> init]

SynapseGroup(src, trg, pre, post, dyn, learnPost, individual, sparse, varInit, reset) ==
    [numSrcNeurons |-> src, numTrgNeurons |-> trg,
     numPresynapticUpdateThreads |-> pre, numPostsynapticUpdateThreads |-> post,
     numSynapseDynamicsThreads |-> dyn, learnPostCode |-> learnPost,
     individualWeights |-> individual, sparse |-> sparse,
     wuVarInitRequired |-> varInit, preSynapseResetRequired |-> reset]

\* the model topologies; modules lists, for each module generateAll emits for
\* the model, the kernels the module defines
Models ==
    { [neuronGroups |-> <<NeuronGroup(1000, TRUE, FALSE)>>, synapseGroups |-> <<>>,
       modules |-> <<{KernelNeuronUpdate}>>],
      [neuronGroups |-> <<NeuronGroup(64, FALSE, FALSE), NeuronGroup(5000, FALSE, TRUE)>>,
       synapseGroups |-> <<SynapseGroup(64, 5000, 64, 5000, 320000,
                                        TRUE, TRUE, FALSE, TRUE, TRUE)>>,
       modules |-> <<{}, {KernelInitialize}>>] }

Attr(regs, smem) == [numRegs |-> regs, sharedSizeBytes |-> smem]

\* what cudaFuncGetAttributes may report for a kernel (a compiled kernel uses
\* at least one register)
AttrValues == { Attr(32, 0), Attr(40, 8192) }

\* what the loop over the kernel names may find in a module defining the kernels found
QueryOutcomes(found) ==
    { [k \in Kernels |-> IF k \in found THEN <<attrs[k]>> ELSE NotFound] :
        attrs \in [found -> AttrValues] }

-----------------------------------------------------------------------------
(* Device selection *)

deviceCount == Len(deviceProps)

\* a selector that never reports missing devices
NoDevicesFoundNever(count) == count < 0

\* the test both selectors make on cudaGetDeviceCount
NoDevicesFound(count) == count = 0

\* whether a device improves on the most global memory seen
ImprovesGlobalMemory(props, mostGlobalMemory) == props.totalGlobalMem > mostGlobalMemory

RECURSIVE MostGlobalMemoryFrom(_, _, _, _)
\* the loop over devices from index dev on
MostGlobalMemoryFrom(props, dev, mostGlobalMemory, bestDevice) ==
    IF dev >= Len(props) THEN bestDevice
    ELSE IF ImprovesGlobalMemory(props[dev + 1], mostGlobalMemory)
    THEN MostGlobalMemoryFrom(props, dev + 1, props[dev + 1].totalGlobalMem, dev)
    ELSE MostGlobalMemoryFrom(props, dev + 1, mostGlobalMemory, bestDevice)

chooseDeviceWithMostGlobalMemory(props) == MostGlobalMemoryFrom(props, 0, 0, -1)

\* a comparator that leaves out the SM version
BetterDeviceNoVersion(a, b) ==
    IF a.numSmallModelKernels > b.numSmallModelKernels THEN TRUE
    ELSE IF a.numSmallModelKernels = b.numSmallModelKernels
    THEN a.totalOccupancy > b.totalOccupancy
    ELSE FALSE

\* the comparator handed to std::min_element: whether device a is better than b
BetterDevice(a, b) ==
    IF a.numSmallModelKernels > b.numSmallModelKernels THEN TRUE
    ELSE IF a.numSmallModelKernels = b.numSmallModelKernels
    THEN IF a.totalOccupancy > b.totalOccupancy THEN TRUE
         ELSE IF a.totalOccupancy = b.totalOccupancy
         THEN a.smVersion > b.smVersion
         ELSE FALSE
    ELSE FALSE

RECURSIVE MinElementFrom(_, _, _)
\* std::min_element: the index kept from position i on, smallest being the best so far
MinElementFrom(devs, i, smallest) ==
    IF i > Len(devs) THEN smallest
    ELSE IF BetterDevice(devs[i], devs[smallest])
    THEN MinElementFrom(devs, i + 1, i)
    ELSE MinElementFrom(devs, i + 1, smallest)

\* std::distance(devices.cbegin(), bestDevice)
bestDeviceID(devs) == MinElementFrom(devs, 2, 1) - 1

smVersion(props) == (props.major * 10) + props.minor

RECURSIVE SumOver(_, _)
\* std::accumulate over the kernels of a map (its int accumulator holds every
\* sum of the model without truncation)
SumOver(kernels, ks) ==
    IF ks = {} THEN 0
    ELSE LET k == CHOOSE x \in ks : TRUE
         IN  kernels[k] + SumOver(kernels, ks \ {k})

totalOccupancy(kernels) ==
    SumOver([k \in DOMAIN kernels |-> kernels[k].occupancy], DOMAIN kernels)

numSmallModelKernels(kernels) ==
    SumOver([k \in DOMAIN kernels |-> IF kernels[k].small THEN 1 ELSE 0], DOMAIN kernels)

-----------------------------------------------------------------------------
(* State *)

NoAttrs == [rep \in {0, 1} |-> [k \in Kernels |-> Uninit]]

NoKernels == [k \in {} |-> [small |-> FALSE, occupancy |-> 0]]

ZeroBlockSize == [k \in Kernels |-> 0]

NoLog == [k \in Kernels |-> <<>>]

NoGroupSizes == [k \in Kernels |-> <<>>]

Init ==
    /\ autoChooseDevice \in BOOLEAN
    /\ deviceProps \in SeqsUpTo(DeviceSet, MaxDevices)
    /\ model \in Models
    /\ pc = "createBackend"
    /\ error = "none"
    /\ d = -1
    /\ groupSizes = NoGroupSizes
    /\ ctx = [dev \in 0 .. (Len(deviceProps) - 1) |-> "none"]
    /\ ctxCurrent = FALSE
    /\ r = 0
    /\ passLog = <<>>
    /\ moduleNames = 0
    /\ m = 0
    /\ status = 0
    /\ module = "none"
    /\ krnlAttr = NoAttrs
    /\ kernelsToOptimise = NoKernels
    /\ blockSize = ZeroBlockSize
    /\ archProps = None
    /\ searched = {}
    /\ candidateLog = NoLog
    /\ limitLog = NoLog
    /\ devices = <<>>
    /\ result = None

-----------------------------------------------------------------------------
(* createBackend, chooseOptimalDevice, chooseDeviceWithMostGlobalMemory *)

\* createBackend with autoChooseDevice: chooseOptimalDevice up to its loop
ChooseOptimalDeviceBegin ==
    /\ pc = "createBackend"
    /\ autoChooseDevice
    /\ IF NoDevicesFound(deviceCount)
       THEN /\ pc' = "failed"
            /\ error' = "No CUDA devices found"
            /\ d' = d
       ELSE /\ pc' = "optimizeBlockSize"
            /\ error' = error
            /\ d' = 0
    /\ UNCHANGED <<autoChooseDevice, deviceProps, model, groupSizes, ctx, ctxCurrent, r,
                   passLog, moduleNames, m, status, module, krnlAttr, kernelsToOptimise,
                   blockSize, archProps, searched, candidateLog, limitLog, devices, result>>

\* createBackend without autoChooseDevice: chooseDeviceWithMostGlobalMemory
ChooseDeviceWithMostGlobalMemory ==
    /\ pc = "createBackend"
    /\ ~autoChooseDevice
    /\ IF NoDevicesFound(deviceCount)
       THEN /\ pc' = "failed"
            /\ error' = "No CUDA devices found"
            /\ d' = d
       ELSE /\ pc' = "optimizeBlockSize"
            /\ error' = error
            /\ d' = chooseDeviceWithMostGlobalMemory(deviceProps)
    /\ UNCHANGED <<autoChooseDevice, deviceProps, model, groupSizes, ctx, ctxCurrent, r,
                   passLog, moduleNames, m, status, module, krnlAttr, kernelsToOptimise,
                   blockSize, archProps, searched, candidateLog, limitLog, devices, result>>

-----------------------------------------------------------------------------
(* optimizeBlockSize: profiling *)

\* whether deviceID names a device cuDeviceGet knows
ValidDevice(deviceID) == deviceID \in 0 .. (deviceCount - 1)

\* calcGroupSizes, cuDeviceGet and cuCtxCreate
OptimizeBegin ==
    /\ pc = "optimizeBlockSize"
    /\ ValidDevice(d)
    /\ groupSizes' = calcGroupSizes(model)
    /\ ctx' = [ctx EXCEPT ![d] = "created"]
    /\ ctxCurrent' = TRUE
    /\ r' = 0
    /\ passLog' = <<>>
    /\ krnlAttr' = NoAttrs
    /\ kernelsToOptimise' = NoKernels
    /\ pc' = "generate"
    /\ UNCHANGED <<autoChooseDevice, deviceProps, model, error, d, moduleNames, m, status,
                   module, blockSize, archProps, searched, candidateLog, limitLog, devices, result>>

\* whether the loop over repetitions goes on to rep
RepetitionInRange(rep) == rep < 2

\* std::fill of the block sizes, Backend construction and generateAll
Generate ==
    /\ pc = "generate"
    /\ RepetitionInRange(r)
    /\ blockSize' = [k \in Kernels |-> repBlockSizes[r + 1]]
    /\ passLog' = Append(passLog, repBlockSizes[r + 1])
    /\ moduleNames' = Len(model.modules)
    /\ ctxCurrent' \in {ctxCurrent, FALSE}
    /\ pc' = "setCurrent"
    /\ UNCHANGED <<autoChooseDevice, deviceProps, model, error, d, groupSizes, ctx, r, m,
                   status, module, krnlAttr, kernelsToOptimise, archProps, searched,
                   candidateLog, limitLog, devices, result>>

\* the context association without the call to cuCtxSetCurrent
AfterSetCurrentKept(current) == current

\* what cuCtxSetCurrent leaves as the context association
AfterSetCurrent(current) == TRUE

\* cuCtxSetCurrent
SetCurrent ==
    /\ pc = "setCurrent"
    /\ ctxCurrent' = AfterSetCurrent(ctxCurrent)
    /\ m' = 0
    /\ pc' = "compile"
    /\ UNCHANGED <<autoChooseDevice, deviceProps, model, error, d, groupSizes, ctx, r,
                   passLog, moduleNames, status, module, krnlAttr, kernelsToOptimise,
                   blockSize, archProps, searched, candidateLog, limitLog, devices, result>>

\* an exit status test that lets every status through
NvccFailedNever(exitStatus) == exitStatus < 0

\* the test on what system() returned
NvccFailed(exitStatus) == exitStatus # 0

\* the nvcc command of one module
Compile ==
    /\ pc = "compile"
    /\ m < moduleNames
    /\ \E exitStatus \in {0, 1} :
        /\ status' = exitStatus
        /\ IF NvccFailed(exitStatus)
           THEN /\ pc' = "failed"
                /\ error' = "optimizeBlockSize: NVCC failed"
           ELSE /\ pc' = "load"
                /\ error' = error
    /\ UNCHANGED <<autoChooseDevice, deviceProps, model, d, groupSizes, ctx, ctxCurrent, r,
                   passLog, moduleNames, m, module, krnlAttr, kernelsToOptimise,
                   blockSize, archProps, searched, candidateLog, limitLog, devices, result>>

\* cuModuleLoad
Load ==
    /\ pc = "load"
    /\ module' = "loaded"
    /\ pc' = "query"
    /\ UNCHANGED <<autoChooseDevice, deviceProps, model, error, d, groupSizes, ctx,
                   ctxCurrent, r, passLog, moduleNames, m, status, krnlAttr,
                   kernelsToOptimise, blockSize, archProps, searched, candidateLog,
                   limitLog, devices, result>>

\* kernelsToOptimise.emplace for the kernels found
Emplace(kernels, found) ==
    [k \in (DOMAIN kernels) \cup found |->
        IF k \in DOMAIN kernels THEN kernels[k] ELSE [small |-> FALSE, occupancy |-> 0]]

\* the loop over the kernel names of the loaded module
Query ==
    /\ pc = "query"
    /\ \E q \in QueryOutcomes(model.modules[m + 1]) :
        /\ krnlAttr' = [krnlAttr EXCEPT ![r] =
                            [k \in Kernels |-> IF q[k] # NotFound THEN q[k] ELSE krnlAttr[r][k]]]
        /\ kernelsToOptimise' = Emplace(kernelsToOptimise, {k \in Kernels : q[k] # NotFound})
    /\ pc' = "unload"
    /\ UNCHANGED <<autoChooseDevice, deviceProps, model, error, d, groupSizes, ctx,
                   ctxCurrent, r, passLog, moduleNames, m, status, module, blockSize,
                   archProps, searched, candidateLog, limitLog, devices, result>>

\* the step to the next module, repetition or cuCtxDestroy without cuModuleUnload
UnloadLeak ==
    /\ pc = "unload"
    /\ module' = module
    /\ m' = m + 1
    /\ IF m + 1 < moduleNames
       THEN /\ pc' = "compile"
            /\ r' = r
       ELSE /\ r' = r + 1
            /\ pc' = IF RepetitionInRange(r + 1) THEN "generate" ELSE "ctxDestroy"
    /\ UNCHANGED <<autoChooseDevice, deviceProps, model, error, d, groupSizes, ctx,
                   ctxCurrent, passLog, moduleNames, status, krnlAttr, kernelsToOptimise,
                   blockSize, archProps, searched, candidateLog, limitLog, devices, result>>

\* cuModuleUnload, and the step to the next module, repetition or cuCtxDestroy
Unload ==
    /\ pc = "unload"
    /\ module' = "none"
    /\ m' = m + 1
    /\ IF m + 1 < moduleNames
       THEN /\ pc' = "compile"
            /\ r' = r
       ELSE /\ r' = r + 1
            /\ pc' = IF RepetitionInRange(r + 1) THEN "generate" ELSE "ctxDestroy"
    /\ UNCHANGED <<autoChooseDevice, deviceProps, model, error, d, groupSizes, ctx,
                   ctxCurrent, passLog, moduleNames, status, krnlAttr, kernelsToOptimise,
                   blockSize, archProps, searched, candidateLog, limitLog, devices, result>>

\* cuCtxDestroy
CtxDestroy ==
    /\ pc = "ctxDestroy"
    /\ ctx' = [ctx EXCEPT ![d] = "destroyed"]
    /\ ctxCurrent' = FALSE
    /\ pc' = "deviceProperties"
    /\ UNCHANGED <<autoChooseDevice, deviceProps, model, error, d, groupSizes, r, passLog,
                   moduleNames, m, status, module, krnlAttr, kernelsToOptimise, blockSize,
                   archProps, searched, candidateLog, limitLog, devices, result>>

\* a driver call under CHECK_CU_ERRORS returns an error: cuDeviceGet or
\* cuCtxCreate, cuCtxSetCurrent, cuModuleLoad, cuModuleUnload, cuCtxDestroy
CuError ==
    /\ pc \in {"optimizeBlockSize", "setCurrent", "load", "unload", "ctxDestroy"}
    /\ pc' = "failed"
    /\ error' = "cuda driver error"
    /\ UNCHANGED <<autoChooseDevice, deviceProps, model, d, groupSizes, ctx, ctxCurrent, r,
                   passLog, moduleNames, m, status, module, krnlAttr, kernelsToOptimise,
                   blockSize, archProps, searched, candidateLog, limitLog, devices, result>>

-----------------------------------------------------------------------------
(* optimizeBlockSize: occupancy search *)

\* cudaGetDeviceProperties, getDeviceArchitectureProperties and the zeroing of blockSize
GetArch ==
    /\ pc = "deviceProperties"
    /\ archProps' = <<getDeviceArchitectureProperties(deviceProps[d + 1])>>
    /\ blockSize' = ZeroBlockSize
    /\ searched' = {}
    /\ candidateLog' = NoLog
    /\ limitLog' = NoLog
    /\ pc' = "search"
    /\ UNCHANGED <<autoChooseDevice, deviceProps, model, error, d, groupSizes, ctx,
                   ctxCurrent, r, passLog, moduleNames, m, status, module, krnlAttr,
                   kernelsToOptimise, devices, result>>

\* the values a read of krnlAttr[rep][k] may give: an entry never written is uninitialised
ReadAttr(rep, k) == IF krnlAttr[rep][k] = Uninit THEN AttrValues ELSE {krnlAttr[rep][k][1]}

\* the kernel the loop over kernelsToOptimise visits next
NextKernel == CHOOSE k \in (DOMAIN kernelsToOptimise) \ searched :
                  \A other \in (DOMAIN kernelsToOptimise) \ searched : k <= other

\* one iteration of the loop over kernelsToOptimise
OptimiseKernel ==
    /\ pc = "search"
    /\ (DOMAIN kernelsToOptimise) \ searched # {}
    /\ \E k \in {NextKernel} :
       \E attr0 \in ReadAttr(0, k), attr1 \in ReadAttr(1, k) :
       \E st \in {SearchKernel(deviceProps[d + 1], archProps[1], groupSizes[k], attr0, attr1)} :
            /\ krnlAttr' = [krnlAttr EXCEPT ![0][k] = <<attr0>>, ![1][k] = <<attr1>>]
            /\ blockSize' = [blockSize EXCEPT ![k] = st.blockSize]
            /\ kernelsToOptimise' = [kernelsToOptimise EXCEPT
                                        ![k] = [small |-> st.small, occupancy |-> st.occupancy]]
            /\ candidateLog' = [candidateLog EXCEPT ![k] = st.log]
            /\ limitLog' = [limitLog EXCEPT ![k] = st.limits]
            /\ searched' = searched \cup {k}
    /\ UNCHANGED <<autoChooseDevice, deviceProps, model, pc, error, d, groupSizes, ctx,
                   ctxCurrent, r, passLog, moduleNames, m, status, module, archProps,
                   devices, result>>

\* the Device tuple chooseOptimalDevice builds from what optimizeBlockSize returned
DeviceTuple(props, kernels, optimalBlockSize) ==
    [smVersion |-> smVersion(props), totalOccupancy |-> totalOccupancy(kernels),
     numSmallModelKernels |-> numSmallModelKernels(kernels), blockSize |-> optimalBlockSize]

\* optimizeBlockSize returns to chooseOptimalDevice, which records the device
OptimizeReturnAuto ==
    /\ pc = "search"
    /\ (DOMAIN kernelsToOptimise) \ searched = {}
    /\ autoChooseDevice
    /\ devices' = Append(devices, DeviceTuple(deviceProps[d + 1], kernelsToOptimise, blockSize))
    /\ d' = d + 1
    /\ pc' = IF d + 1 < deviceCount THEN "optimizeBlockSize" ELSE "bestDevice"
    /\ krnlAttr' = NoAttrs
    /\ kernelsToOptimise' = NoKernels
    /\ blockSize' = ZeroBlockSize
    /\ searched' = {}
    /\ candidateLog' = NoLog
    /\ limitLog' = NoLog
    /\ UNCHANGED <<autoChooseDevice, deviceProps, model, error, groupSizes, ctx, ctxCurrent,
                   r, passLog, moduleNames, m, status, module, archProps, result>>

\* optimizeBlockSize returns to createBackend, which builds the Backend
OptimizeReturnManual ==
    /\ pc = "search"
    /\ (DOMAIN kernelsToOptimise) \ searched = {}
    /\ ~autoChooseDevice
    /\ result' = <<[deviceID |-> d, blockSize |-> blockSize]>>
    /\ pc' = "done"
    /\ UNCHANGED <<autoChooseDevice, deviceProps, model, error, d, groupSizes, ctx,
                   ctxCurrent, r, passLog, moduleNames, m, status, module, krnlAttr,
                   kernelsToOptimise, blockSize, archProps, searched, candidateLog, limitLog, devices>>

\* std::min_element over the devices, and the Backend createBackend builds
BestDevice ==
    /\ pc = "bestDevice"
    /\ result' = <<[deviceID |-> bestDeviceID(devices),
                    blockSize |-> devices[bestDeviceID(devices) + 1].blockSize]>>
    /\ pc' = "done"
    /\ UNCHANGED <<autoChooseDevice, deviceProps, model, error, d, groupSizes, ctx,
                   ctxCurrent, r, passLog, moduleNames, m, status, module, krnlAttr,
                   kernelsToOptimise, blockSize, archProps, searched, candidateLog, limitLog, devices>>

Next ==
    \/ ChooseOptimalDeviceBegin
    \/ ChooseDeviceWithMostGlobalMemory
    \/ OptimizeBegin
    \/ Generate
    \/ SetCurrent
    \/ Compile
    \/ Load
    \/ Query
    \/ Unload
    \/ CtxDestroy
    \/ CuError
    \/ GetArch
    \/ OptimiseKernel
    \/ OptimizeReturnAuto
    \/ OptimizeReturnManual
    \/ BestDevice

Spec == Init /\ [][Next]_vars

\* the executions in which every call under CHECK_CU_ERRORS succeeds
NextDriverOk ==
    \/ ChooseOptimalDeviceBegin
    \/ ChooseDeviceWithMostGlobalMemory
    \/ OptimizeBegin
    \/ Generate
    \/ SetCurrent
    \/ Compile
    \/ Load
    \/ Query
    \/ Unload
    \/ CtxDestroy
    \/ GetArch
    \/ OptimiseKernel
    \/ OptimizeReturnAuto
    \/ OptimizeReturnManual
    \/ BestDevice

SpecDriverOk == Init /\ [][NextDriverOk]_vars

-----------------------------------------------------------------------------
(* The occupancy search on its own: optimizeBlockSize from the loop over    *)
(* kernelsToOptimise on, for one device, entered with any attributes the    *)
(* two repetitions may have read                                            *)

\* most warps in the largest candidate block of the small search devices
MaxSearchWarps == 3

SearchDevices ==
    { Device(1, 1, 1, 512, 768, 8192, 16384, 1024),
      Device(1, 3, 2, 512, 1024, 16384, 16384, 1024),
      Device(2, 0, 14, 1024, 1536, 32768, 49152, 1024),
      Device(3, 5, 13, 1024, 2048, 65536, 49152, 1024),
      Device(6, 0, 56, 1024, 2048, 65536, 65536, 1024),
      Device(6, 1, 2, 1024, 2048, 65536, 98304, 1024),
      Device(7, 0, 80, 1024, 2048, 65536, 98304, 1024),
      Device(6, 1, 1, (MaxSearchWarps + 1) * warpSize, 2048, 65536, 98304, 1024) }

SearchModels ==
    { [neuronGroups |-> <<NeuronGroup(1000, TRUE, FALSE)>>, synapseGroups |-> <<>>,
       modules |-> <<{KernelNeuronUpdate}>>],
      [neuronGroups |-> <<NeuronGroup(64, FALSE, FALSE), NeuronGroup(5000, FALSE, TRUE)>>,
       synapseGroups |-> <<SynapseGroup(64, 5000, 64, 5000, 320000,
                                        TRUE, TRUE, FALSE, TRUE, TRUE)>>,
       modules |-> <<{}, {KernelInitialize}>>],
      [neuronGroups |-> <<NeuronGroup(40, FALSE, FALSE), NeuronGroup(300, FALSE, FALSE)>>,
       synapseGroups |-> <<SynapseGroup(40, 300, 40, 300, 12000,
                                        FALSE, TRUE, TRUE, TRUE, FALSE)>>,
       modules |-> <<{KernelNeuronUpdate, KernelPostsynapticUpdate}>>] }

SearchAttrValues == { Attr(regs, smem) : regs \in {16, 64}, smem \in {0, 2048, 40000} }

\* the kernels the modules of a model define
ModelKernels(mdl) == UNION {mdl.modules[i] : i \in 1 .. Len(mdl.modules)}

InitSearch ==
    /\ autoChooseDevice = FALSE
    /\ deviceProps \in {<<props>> : props \in SearchDevices}
    /\ model \in SearchModels
    /\ pc = "search"
    /\ error = "none"
    /\ d = 0
    /\ groupSizes = calcGroupSizes(model)
    /\ ctx = [dev \in {0} |-> "destroyed"]
    /\ ctxCurrent = FALSE
    /\ r = 2
    /\ passLog = repBlockSizes
    /\ moduleNames = Len(model.modules)
    /\ m = Len(model.modules)
    /\ status = 0
    /\ module = "none"
    /\ krnlAttr \in { [rep \in {0, 1} |->
                         [k \in Kernels |-> IF k \in ModelKernels(model)
                                            THEN <<attrs[rep][k]>> ELSE Uninit]] :
                      attrs \in [{0, 1} -> [ModelKernels(model) -> SearchAttrValues]] }
    /\ kernelsToOptimise = Emplace(NoKernels, ModelKernels(model))
    /\ blockSize = ZeroBlockSize
    /\ archProps = <<getDeviceArchitectureProperties(deviceProps[1])>>
    /\ searched = {}
    /\ candidateLog = NoLog
    /\ limitLog = NoLog
    /\ devices = <<>>
    /\ result = None

NextSearch ==
    \/ OptimiseKernel
    \/ OptimizeReturnManual

SpecSearch == InitSearch /\ [][NextSearch]_vars

-----------------------------------------------------------------------------
(* The architecture table on its own: getDeviceArchitectureProperties for   *)
(* any compute capability                                                   *)

\* largest major and minor compute capability looked up
MaxMajor == 9
MaxMinor == 5

InitArch ==
    /\ autoChooseDevice = FALSE
    /\ deviceProps \in {<<Device(major, minor, 2, 1024, 2048, 65536, 98304, 8192)>> :
                           major \in 0 .. MaxMajor, minor \in 0 .. MaxMinor}
    /\ model \in {mdl \in Models : mdl.synapseGroups = <<>>}
    /\ pc = "deviceProperties"
    /\ error = "none"
    /\ d = 0
    /\ groupSizes = calcGroupSizes(model)
    /\ ctx = [dev \in {0} |-> "destroyed"]
    /\ ctxCurrent = FALSE
    /\ r = 2
    /\ passLog = repBlockSizes
    /\ moduleNames = Len(model.modules)
    /\ m = Len(model.modules)
    /\ status = 0
    /\ module = "none"
    /\ krnlAttr = NoAttrs
    /\ kernelsToOptimise = NoKernels
    /\ blockSize = [k \in Kernels |-> repBlockSizes[2]]
    /\ archProps = None
    /\ searched = {}
    /\ candidateLog = NoLog
    /\ limitLog = NoLog
    /\ devices = <<>>
    /\ result = None

NextArch == GetArch

SpecArch == InitArch /\ [][NextArch]_vars

-----------------------------------------------------------------------------
(* The workload sizer on its own: calcGroupSizes at the start of            *)
(* optimizeBlockSize, for a family of model topologies                      *)

\* most neuron groups and most synapse groups of a topology
MaxNeuronGroups == 2
MaxSynapseGroups == 1

\* a large population: two of them span 2^32 synapses
LargePopulation == UIntHalf

NeuronGroupChoices ==
    { NeuronGroup(n, flags[1], flags[2]) :
        n \in {1, LargePopulation},
        flags \in {<<FALSE, FALSE>>, <<TRUE, FALSE>>, <<FALSE, TRUE>>} }

\* the thread counts of a synapse group are those of its populations
SynapseGroupChoices ==
    { SynapseGroup(sizes[1], sizes[2], sizes[2], sizes[1], sizes[1],
                   learnPost, init[1], init[2], init[3], reset) :
        sizes \in {<<3, 5>>, <<LargePopulation, LargePopulation>>},
        learnPost \in BOOLEAN,
        init \in {<<FALSE, FALSE, FALSE>>, <<TRUE, FALSE, TRUE>>, <<TRUE, TRUE, TRUE>>},
        reset \in BOOLEAN }

\* the topologies: at least one neuron group, any synapse groups
SizeModels ==
    { [neuronGroups |-> ngs, synapseGroups |-> sgs, modules |-> <<{KernelNeuronUpdate}>>] :
        ngs \in SeqsUpTo(NeuronGroupChoices, MaxNeuronGroups) \ {<<>>},
        sgs \in SeqsUpTo(SynapseGroupChoices, MaxSynapseGroups) }

InitSizes ==
    /\ autoChooseDevice = FALSE
    /\ deviceProps = <<Device(6, 1, 2, 1024, 2048, 65536, 98304, 8192)>>
    /\ model \in SizeModels
    /\ pc = "optimizeBlockSize"
    /\ error = "none"
    /\ d = 0
    /\ groupSizes = NoGroupSizes
    /\ ctx = [dev \in {0} |-> "none"]
    /\ ctxCurrent = FALSE
    /\ r = 0
    /\ passLog = <<>>
    /\ moduleNames = 0
    /\ m = 0
    /\ status = 0
    /\ module = "none"
    /\ krnlAttr = NoAttrs
    /\ kernelsToOptimise = NoKernels
    /\ blockSize = ZeroBlockSize
    /\ archProps = None
    /\ searched = {}
    /\ candidateLog = NoLog
    /\ limitLog = NoLog
    /\ devices = <<>>
    /\ result = None

NextSizes == OptimizeBegin

SpecSizes == InitSizes /\ [][NextSizes]_vars

-----------------------------------------------------------------------------
(* Properties *)

\* the candidates of a device, in warps
CandidateWarps(props) == 1 .. ((props.maxThreadsPerBlock \div warpSize) - 1)

\* the two attribute samples the search of kernel k read
Sample(rep, k) == krnlAttr[rep][k][1]

\* the occupancy of candidate w for kernel k on the device being optimised
OccupancyAt(k, w) ==
    w * smBlockLimit(deviceProps[d + 1], archProps[1], Sample(0, k), Sample(1, k), w)
      * deviceProps[d + 1].multiProcessorCount

\* whether candidate w lets all groups of kernel k occupy the device at once
FitsAt(k, w) ==
    reqBlocks(groupSizes[k], w * warpSize)
        <= smBlockLimit(deviceProps[d + 1], archProps[1], Sample(0, k), Sample(1, k), w)
             * deviceProps[d + 1].multiProcessorCount

SmallCandidates(k) == {w \in CandidateWarps(deviceProps[d + 1]) : FitsAt(k, w)}

\* C1: candidates are visited in increasing block size 32, 64, ...; when some
\* candidate fits the whole workload on the device, the search of the kernel
\* ends at the smallest such candidate: it is the block size, the kernel is
\* marked small, its occupancy is recorded and no larger candidate is visited.
C1_SmallestFittingCandidate ==
    \A k \in searched :
        /\ \A i \in 1 .. Len(candidateLog[k]) : candidateLog[k][i] = i * warpSize
        /\ SmallCandidates(k) # {} =>
             \E w \in SmallCandidates(k) :
                /\ \A v \in SmallCandidates(k) : w <= v
                /\ blockSize[k] = w * warpSize
                /\ kernelsToOptimise[k].small
                /\ kernelsToOptimise[k].occupancy = OccupancyAt(k, w)
                /\ Len(candidateLog[k]) = w

\* C1 witness: a kernel whose workload first fits at the third candidate or later
C1_Witness ==
    \E k \in searched :
        /\ kernelsToOptimise[k].small
        /\ blockSize[k] >= 3 * warpSize
        /\ groupSizes[k] # <<>>

\* C3: after optimizeBlockSize returned, a kernel found in a binary has a
\* block size that is a positive multiple of 32 below maxThreadsPerBlock, and
\* a kernel not found has block size 0.
C3_BlockSizeOfEveryKernel ==
    (pc = "done" /\ ~autoChooseDevice) =>
        \A k \in Kernels :
            IF k \in DOMAIN kernelsToOptimise
            THEN /\ result[1].blockSize[k] > 0
                 /\ result[1].blockSize[k] % warpSize = 0
                 /\ result[1].blockSize[k] < deviceProps[d + 1].maxThreadsPerBlock
            ELSE result[1].blockSize[k] = 0

\* C9: when no candidate fits the whole workload, the block size is the
\* smallest candidate of the highest occupancy, the kernel is not marked small
\* and the recorded occupancy is that candidate's.
C9_HighestOccupancyCandidate ==
    \A k \in searched :
        SmallCandidates(k) = {} =>
            \E w \in CandidateWarps(deviceProps[d + 1]) :
                /\ blockSize[k] = w * warpSize
                /\ \A v \in CandidateWarps(deviceProps[d + 1]) :
                      /\ OccupancyAt(k, v) <= OccupancyAt(k, w)
                      /\ OccupancyAt(k, v) = OccupancyAt(k, w) => w <= v
                /\ ~kernelsToOptimise[k].small
                /\ kernelsToOptimise[k].occupancy = OccupancyAt(k, w)

\* the ranking key of the i-th Device tuple
RankKey(i) ==
    <<devices[i].numSmallModelKernels, devices[i].totalOccupancy, devices[i].smVersion>>

\* lexicographic order on ranking keys
RanksHigher(a, b) ==
    \/ a[1] > b[1]
    \/ a[1] = b[1] /\ a[2] > b[2]
    \/ a[1] = b[1] /\ a[2] = b[2] /\ a[3] > b[3]

\* C2: with autoChooseDevice the device returned ranks first by number of
\* small model kernels, then total occupancy, then SM version major*10+minor,
\* then lowest index; the block sizes returned are those optimised for it.
C2_BestDeviceRanksFirst ==
    (pc = "done" /\ autoChooseDevice) =>
        /\ Len(devices) = deviceCount
        /\ result[1].deviceID \in 0 .. (deviceCount - 1)
        /\ \A i \in 1 .. deviceCount :
              /\ devices[i].smVersion = (deviceProps[i].major * 10) + deviceProps[i].minor
              /\ ~RanksHigher(RankKey(i), RankKey(result[1].deviceID + 1))
              /\ RankKey(i) = RankKey(result[1].deviceID + 1) => result[1].deviceID + 1 <= i
        /\ result[1].blockSize = devices[result[1].deviceID + 1].blockSize

\* C2 witness: the second device wins on SM version alone
C2_Witness ==
    /\ pc = "done"
    /\ autoChooseDevice
    /\ Len(devices) = 2
    /\ result[1].deviceID = 1
    /\ devices[1].numSmallModelKernels = devices[2].numSmallModelKernels
    /\ devices[1].totalOccupancy = devices[2].totalOccupancy
    /\ devices[1].totalOccupancy > 0

\* C4: without autoChooseDevice and with a device visible, the device handed
\* to optimizeBlockSize is a visible device of the largest total global
\* memory, the lowest index among those, and the Backend is built for it.
C4_DeviceWithMostGlobalMemory ==
    (~autoChooseDevice /\ deviceCount >= 1 /\ pc # "createBackend") =>
        /\ d \in 0 .. (deviceCount - 1)
        /\ \A i \in 1 .. deviceCount :
              /\ deviceProps[i].totalGlobalMem <= deviceProps[d + 1].totalGlobalMem
              /\ deviceProps[i].totalGlobalMem = deviceProps[d + 1].totalGlobalMem => d + 1 <= i
        /\ pc = "done" => result[1].deviceID = d

\* C5: with no device visible both selectors fail with "No CUDA devices
\* found" before optimizeBlockSize is entered: no context, no generated or
\* compiled code, no device id and no block sizes.
C5_NoDeviceFound ==
    (deviceCount = 0 /\ pc # "createBackend") =>
        /\ pc = "failed"
        /\ error = "No CUDA devices found"
        /\ d = -1
        /\ groupSizes = NoGroupSizes
        /\ ~ctxCurrent
        /\ passLog = <<>>
        /\ module = "none"
        /\ devices = <<>>
        /\ result = None

\* C5 witness: the failure on the path without autoChooseDevice
C5_Witness == deviceCount = 0 /\ pc = "failed" /\ ~autoChooseDevice

\* C6: a nonzero exit status of nvcc ends createBackend with a failure at
\* once: the step that sees it fails without a result, and nothing runs after
\* a failure (no retry, no further module or device, no ranking).
C6_NvccFailureAborts ==
    [][ /\ status' # 0 => (pc' = "failed" /\ error' = "optimizeBlockSize: NVCC failed"
                            /\ result' = None)
        /\ pc # "failed" ]_vars

\* C6 witness: nvcc fails for the second device after the first was optimised
C6_Witness == pc = "failed" /\ status # 0 /\ Len(devices) = 1 /\ result = None

\* C7: no execution ends in a failure with a context created and not destroyed.
C7_ContextReleasedOnFailure ==
    pc = "failed" => \A dev \in DOMAIN ctx : ctx[dev] # "created"

\* C10: each device optimised is profiled exactly twice, with block size 32
\* and then 64; in each pass every block size is the probe value, and the
\* context is current, after code generation, whenever a binary is about to be
\* loaded, is loaded or is queried.
C10_TwoProbePasses ==
    /\ pc \in {"ctxDestroy", "deviceProperties", "search"} => passLog = <<32, 64>>
    /\ pc \in {"setCurrent", "compile", "load", "query", "unload"} =>
          /\ Len(passLog) = r + 1
          /\ passLog[r + 1] = (r + 1) * 32
          /\ \A k \in Kernels : blockSize[k] = passLog[r + 1]
    /\ (pc \in {"load", "query", "unload"} \/ module = "loaded") => ctxCurrent

\* C10 witness: the second pass of the second device queries a loaded binary
C10_Witness == pc = "query" /\ r = 1 /\ d = 1 /\ module = "loaded" /\ passLog = <<32, 64>>

\* C8 as stated: every major version from 7 on gets the fallback constants
\* and a warning; 6.1 gets 4, 256, 256, 32.
C8_FallbackWarnsFrom7 ==
    archProps # None =>
        /\ deviceProps[d + 1].major >= 7 =>
              /\ archProps[1].warpAllocGran = 4 /\ archProps[1].regAllocGran = 256
              /\ archProps[1].smemAllocGran = 256 /\ archProps[1].maxBlocksPerSM = 32
              /\ archProps[1].warned
        /\ (deviceProps[d + 1].major = 6 /\ deviceProps[d + 1].minor = 1) =>
              /\ archProps[1].warpAllocGran = 4 /\ archProps[1].regAllocGran = 256
              /\ archProps[1].smemAllocGran = 256 /\ archProps[1].maxBlocksPerSM = 32

\* C8 amended: the lookup gives constants for every version; every major
\* version from 7 on gets the fallback constants, with a warning exactly when
\* the major version is above 7; 6.1 gets 4, 256, 256, 32.
C8_FallbackWarnsAbove7 ==
    archProps # None =>
        /\ archProps[1].warpAllocGran > 0 /\ archProps[1].regAllocGran > 0
        /\ archProps[1].smemAllocGran > 0 /\ archProps[1].maxBlocksPerSM > 0
        /\ deviceProps[d + 1].major >= 7 =>
              /\ archProps[1].warpAllocGran = 4 /\ archProps[1].regAllocGran = 256
              /\ archProps[1].smemAllocGran = 256 /\ archProps[1].maxBlocksPerSM = 32
              /\ archProps[1].warned <=> deviceProps[d + 1].major > 7
        /\ (deviceProps[d + 1].major = 6 /\ deviceProps[d + 1].minor = 1) =>
              /\ archProps[1].warpAllocGran = 4 /\ archProps[1].regAllocGran = 256
              /\ archProps[1].smemAllocGran = 256 /\ archProps[1].maxBlocksPerSM = 32
              /\ ~archProps[1].warned

\* C8 witness: major version 7 looked up without a warning
C8_Witness == archProps # None /\ deviceProps[d + 1].major = 7 /\ ~archProps[1].warned

\* whether the padded shared memory estimate logged for a candidate exceeds
\* sharedMemPerMultiprocessor (a negative integer stands for a wrapped size_t)
ExceedsSharedMem(entry) ==
    \/ entry.reqSharedMemBytes < 0
    \/ entry.reqSharedMemBytes > deviceProps[d + 1].sharedMemPerMultiprocessor

\* the candidates logged for kernel k
LoggedCandidates(k) == {limitLog[k][i] : i \in 1 .. Len(limitLog[k])}

\* C11 as stated: for every candidate whose padded shared memory estimate
\* exceeds sharedMemPerMultiprocessor, the SM block limit is strictly less
\* than the limit left by the thread, maxBlocksPerSM and register corrections.
C11_SharedMemoryLowersLimit ==
    \A k \in searched : \A entry \in LoggedCandidates(k) :
        ExceedsSharedMem(entry) => entry.smBlockLimit < entry.forRegisters

\* C11 amended: for every such candidate the SM block limit is 0; it never
\* exceeds the limit left by the other corrections and is strictly less
\* exactly when that limit is positive.
C11_SharedMemoryZeroesLimit ==
    \A k \in searched : \A entry \in LoggedCandidates(k) :
        ExceedsSharedMem(entry) =>
            /\ entry.smBlockLimit = 0
            /\ entry.smBlockLimit <= entry.forRegisters
            /\ entry.smBlockLimit < entry.forRegisters <=> entry.forRegisters > 0

\* C11 witness: a kernel with a candidate over the shared memory budget whose
\* limit was positive before the correction, and one whose limit was already 0
C11_Witness ==
    \E k \in searched : \E pos, zero \in LoggedCandidates(k) :
        /\ ExceedsSharedMem(pos) /\ pos.forRegisters > 0 /\ pos.smBlockLimit = 0
        /\ ExceedsSharedMem(zero) /\ zero.forRegisters = 0 /\ zero.smBlockLimit = 0
        /\ zero.reqSharedMemBytes > 0

\* x rounded up to a multiple of gran
RoundUp(x, gran) == ((x + gran - 1) \div gran) * gran

\* regsPerBlock / pad(pad(blockWarps, warpAllocGran) * registersPerThread * 32, regAllocGran)
RegisterCap(k, blockWarps) ==
    deviceProps[d + 1].regsPerBlock
        \div RoundUp(RoundUp(blockWarps, archProps[1].warpAllocGran)
                        * Sample(0, k).numRegs * 32,
                     archProps[1].regAllocGran)

\* the register counts a second run may have read instead
RegisterCounts == {1, 255}

\* the search of kernel k in a run that read registers regs0 and regs1 and
\* is otherwise the same
SearchWithRegisters(k, regs0, regs1) ==
    SearchKernel(deviceProps[d + 1], archProps[1], groupSizes[k],
                 [Sample(0, k) EXCEPT !.numRegs = regs0],
                 [Sample(1, k) EXCEPT !.numRegs = regs1])

\* C12: on major version 1 the limit after the register correction is the
\* limit before it capped by regsPerBlock / pad(pad(blockWarps, warpAllocGran)
\* * registers * 32, regAllocGran); on every other version the correction
\* changes nothing, and a run that differs only in the register counts read
\* gives the same block size, occupancy and small flag for every kernel.
C12_RegisterLimitOnlyPerBlock ==
    \A k \in searched :
        /\ \A entry \in LoggedCandidates(k) :
              IF deviceProps[d + 1].major = 1
              THEN entry.forRegisters
                      = Min(entry.forMaxBlocks, RegisterCap(k, entry.blockWarps))
              ELSE entry.forRegisters = entry.forMaxBlocks
        /\ deviceProps[d + 1].major # 1 =>
              \A regs0, regs1 \in RegisterCounts :
                  \E other \in {SearchWithRegisters(k, regs0, regs1)} :
                      /\ other.blockSize = blockSize[k]
                      /\ other.occupancy = kernelsToOptimise[k].occupancy
                      /\ other.small = kernelsToOptimise[k].small

\* C12 witness: a kernel of 64 registers searched on a version other than 1,
\* with a candidate the register cap would have lowered
C12_Witness ==
    \E k \in searched : \E entry \in LoggedCandidates(k) :
        /\ deviceProps[d + 1].major # 1
        /\ Sample(0, k).numRegs = 64
        /\ RegisterCap(k, entry.blockWarps) < entry.forMaxBlocks
        /\ entry.forRegisters = entry.forMaxBlocks
        /\ blockSize[k] > 0

\* whether every element of a sequence is positive
AllPositive(sizes) == \A i \in 1 .. Len(sizes) : sizes[i] > 0

\* the synapse groups of the model that require a reset before the update
ResetRequiredGroups ==
    {i \in 1 .. Len(model.synapseGroups) : model.synapseGroups[i].preSynapseResetRequired}

\* the synapse groups of the model initialised densely on the device
DenseInitGroups ==
    {i \in 1 .. Len(model.synapseGroups) :
        /\ model.synapseGroups[i].individualWeights
        /\ model.synapseGroups[i].wuVarInitRequired
        /\ ~model.synapseGroups[i].sparse}

CreatedContexts == {dev \in DOMAIN ctx : ctx[dev] = "created"}

\* the positions between cuCtxCreate and cuCtxDestroy
Probing == {"generate", "setCurrent", "compile", "load", "query", "unload", "ctxDestroy"}

\* where the resources stand at each position of a run that has not failed
ResourcesNested ==
    pc # "failed" =>
        /\ module = "loaded" <=> pc \in {"query", "unload"}
        /\ Cardinality(CreatedContexts) <= 1
        /\ pc \in Probing => CreatedContexts = {d}
        /\ pc \notin Probing => CreatedContexts = {}
        /\ pc \in {"deviceProperties", "search"} =>
              ctx[d] = "destroyed" /\ passLog = repBlockSizes
        /\ (autoChooseDevice /\ pc # "createBackend") =>
              \A dev \in DOMAIN ctx :
                  /\ dev < d => ctx[dev] = "destroyed"
                  /\ dev > d => ctx[dev] = "none"

\* how the resources change in a step
ResourcesSerialized ==
    /\ \A dev \in DOMAIN ctx :
          /\ ctx[dev] = "destroyed" => ctx'[dev] = "destroyed"
          /\ (ctx[dev] # "created" /\ ctx'[dev] = "created") =>
                /\ ctx[dev] = "none"
                /\ CreatedContexts = {}
                /\ passLog' = <<>>
          /\ (ctx[dev] = "created" /\ ctx'[dev] # "created") =>
                /\ ctx'[dev] = "destroyed"
                /\ passLog = repBlockSizes
                /\ module = "none"
                /\ pc' = "deviceProperties"
    /\ (module = "none" /\ module' = "loaded") => pc = "load"
    /\ (module = "loaded" /\ module' = "none") =>
          pc = "unload" /\ pc' \in {"compile", "generate", "ctxDestroy"}
    /\ pc' = "load" => module' = "none"

\* C14: while no failure has occurred, a binary is loaded only between its
\* cuModuleLoad and the cuModuleUnload that follows the query of all kernels,
\* and never while the next module is compiled or loaded; the context of a
\* device is created before its first probe and destroyed once, after its
\* second probe and before the occupancy search; with autoChooseDevice the
\* context of a device is destroyed before that of the next is created; at
\* most one context exists at any time.
C14_ResourcesNestedAndSerialized == []ResourcesNested /\ [][ResourcesSerialized]_vars

\* C14 witness: both devices were optimised for a model of two modules and
\* both contexts are destroyed
C14_Witness ==
    /\ pc = "done"
    /\ autoChooseDevice
    /\ deviceCount = 2
    /\ Len(model.modules) = 2
    /\ \A dev \in DOMAIN ctx : ctx[dev] = "destroyed"
    /\ passLog = repBlockSizes

====
